---- MODULE Spec2Model ----
\* Model of FullTravelBot.py: the /start conversation handler with its Redis
\* rate limiter and SQL user store, the payment manager, and startup (main).
EXTENDS Integers, Sequences, FiniteSets, TLC

VARIABLES
    now,              \* int(time.time()) / datetime.utcnow(), in seconds
    limit,            \* RateLimiter.limit (Config.RATE_LIMIT)
    redis,            \* sorted set rate_limit:<id>, as the set of its members (member = score)
    rexp,             \* expiry time of the key rate_limit:<id>, NoExpiry when the key is absent
    users,            \* table 'users', rows in insertion order
    transactions,     \* table 'transactions'
    command_counter,  \* Analytics.command_counter{command="start"}
    conv,             \* ConversationHandler state per identity
    starts,           \* number of /start updates dispatched so far
    issued,           \* history: times of the check_rate_limit calls of each identity still in the window
    pc, uid, locale, rl, trueCount, t0, user, created, sent, ret, exc, failed,
                      \* per running handler: position and locals of EnhancedTravelBot.start
    payPc, payProvider, payAmount, payRequest, payVendor, payCalls, payBefore, payResult,
    payRaised, payments,
                      \* PaymentManager.create_payment: position, arguments, request sent,
                      \* vendor's answer, vendor calls made (now and at the call's start), outcome
    env, mainPc, validated, services
                      \* main: environment, position, result of Config.validate, services started

botVars == <<now, limit, redis, rexp, users, command_counter, conv, starts, issued,
             pc, uid, locale, rl, trueCount, t0, user, created, sent, ret, exc, failed>>
payVars == <<payPc, payProvider, payAmount, payRequest, payVendor, payCalls, payBefore,
             payResult, payRaised, payments>>
mainVars == <<env, mainPc, validated, services>>
vars == <<botVars, transactions, payVars, mainVars>>

-----------------------------------------------------------------------------
\* Bounds of the model

MaxTime == 60
MaxStarts == 2
MaxRaceStarts == 2
MaxRaceTime == 20
MaxLimit == 2
MaxPayments == 3

\* Program constants

WINDOW == 60
EXPIRE_SECONDS == 60

\* Inputs

Ids == {42, 7}
RaceIds == {42}
Procs == {"h1", "h2"}
TickSteps == {20, 60}
NoLocale == "None"
Locales == {NoLocale, "ru", "de"}
SUPPORTED_LANGUAGES == {"en", "ru", "es", "zh"}

NoExpiry == -1
NoUser == [id |-> 0]
END == "END"
RATE_NOTICE == "rate-limit notice"
ERROR_MSG == "generic error"

\* Names bound at module level of FullTravelBot.py (classes, functions, module variables)
ModuleGlobals ==
    {"logger", "Base", "PaymentProvider", "Language", "User", "Transaction", "Config",
     "Analytics", "DatabaseManager", "RateLimiter", "Translations", "PaymentManager",
     "EnhancedTravelBot", "create_flask_app", "main", "ConversationHandler", "ParseMode"}

\* A global name evaluates if it is bound, and raises NameError otherwise
Resolves(name) == name \in ModuleGlobals

-----------------------------------------------------------------------------
\* Redis sorted-set commands, on a set whose members equal their scores

ZAdd(zset, member) == zset \cup {member}

ZRemRangeByScore(zset, lo, hi) == {m \in zset : ~(lo <= m /\ m <= hi)}

ZCard(zset) == Cardinality(zset)

\* RateLimiter.check_rate_limit: the pipeline's effect on the key and its answer
check_rate_limit(zset, current, lim) ==
    LET kept == ZRemRangeByScore(ZAdd(zset, current), 0, current - WINDOW)
    IN  [zset |-> kept, allowed |-> ZCard(kept) <= lim]

\* Translations.get_text for the key 'welcome': unknown languages fall back to 'en'
WelcomeLanguages == {"en", "ru", "es", "zh"}
get_text_welcome(language) ==
    IF language \in WelcomeLanguages THEN <<"welcome", language>> ELSE <<"welcome", "en">>

\* update.effective_user.language_code or 'en'
LanguageArg(language_code) == IF language_code = NoLocale THEN "en" ELSE language_code

\* session.query(User).filter_by(telegram_id=...).first()
Matching(tbl, tid) == {i \in DOMAIN tbl : tbl[i].telegram_id = tid}
first(tbl, tid) ==
    IF Matching(tbl, tid) = {} THEN NoUser
    ELSE tbl[CHOOSE i \in Matching(tbl, tid) : \A j \in Matching(tbl, tid) : i <= j]

UniqueOff(tbl, tid) == FALSE

\* Column telegram_id is unique=True: an INSERT of a present telegram_id is rejected
UniqueViolation(tbl, tid) == Matching(tbl, tid) # {}

\* The row DatabaseManager.create_user inserts
NewUser(tbl, tid, language, utcnow) ==
    [id |-> Len(tbl) + 1, telegram_id |-> tid, language |-> language,
     created_at |-> utcnow, last_active |-> utcnow]

CounterAlways(counter, allowed) == counter + 1

\* command_counter.labels(command='start').inc() runs only past the rate-limit return
CounterAfterCheck(counter, allowed) == IF allowed THEN counter + 1 ELSE counter

-----------------------------------------------------------------------------
\* EnhancedTravelBot.start, one action per external call

Locals(p, npc, nrl, ntc, nuser, ncreated, nsent, nret, nexc, nfailed) ==
    /\ pc' = [pc EXCEPT ![p] = npc]
    /\ rl' = [rl EXCEPT ![p] = nrl]
    /\ trueCount' = [trueCount EXCEPT ![p] = ntc]
    /\ user' = [user EXCEPT ![p] = nuser]
    /\ created' = [created EXCEPT ![p] = ncreated]
    /\ sent' = [sent EXCEPT ![p] = nsent]
    /\ ret' = [ret EXCEPT ![p] = nret]
    /\ exc' = [exc EXCEPT ![p] = nexc]
    /\ failed' = [failed EXCEPT ![p] = nfailed]

Raise(p, e) ==
    Locals(p, "except", rl[p], trueCount[p], user[p], created[p], sent[p], ret[p], e, TRUE)

\* Workers are interchangeable: the dispatcher takes the first free one
Earlier(q, p) == q = "h1" /\ p = "h2"

\* The dispatcher hands a /start update of identity tid to a free handler
Begin(p, tid, lc, cap) ==
    /\ pc[p] = "idle"
    /\ \A q \in Procs : Earlier(q, p) => pc[q] # "idle"
    /\ starts < cap
    /\ starts' = starts + 1
    /\ pc' = [pc EXCEPT ![p] = "check"]
    /\ uid' = [uid EXCEPT ![p] = tid]
    /\ locale' = [locale EXCEPT ![p] = lc]
    /\ t0' = [t0 EXCEPT ![p] = now]
    /\ UNCHANGED <<now, limit, redis, rexp, users, command_counter, conv, issued,
                   rl, trueCount, user, created, sent, ret, exc, failed>>
    /\ UNCHANGED <<transactions, payVars, mainVars>>

Recent(times, current) == SelectSeq(times, LAMBDA t : t > current - WINDOW)

CheckRateLimitOk(p) ==
    /\ pc[p] = "check"
    /\ LET r == check_rate_limit(redis[uid[p]], now, limit)
           log == Append(Recent(issued[uid[p]], now), now)
       IN  /\ redis' = [redis EXCEPT ![uid[p]] = r.zset]
           /\ rexp' = [rexp EXCEPT ![uid[p]] = now + EXPIRE_SECONDS]
           /\ issued' = [issued EXCEPT ![uid[p]] = log]
           /\ command_counter' = CounterAfterCheck(command_counter, r.allowed)
           /\ Locals(p, IF r.allowed THEN "get_user" ELSE "reply_limit",
                     IF r.allowed THEN "allowed" ELSE "rejected", Len(log),
                     user[p], created[p], sent[p], ret[p], exc[p], failed[p])
    /\ UNCHANGED <<now, limit, users, conv, starts, uid, locale, t0>>
    /\ UNCHANGED <<transactions, payVars, mainVars>>

CheckRateLimitFails(p) ==
    /\ pc[p] = "check"
    /\ Raise(p, "RedisError")
    /\ UNCHANGED <<now, limit, redis, rexp, users, command_counter, conv, starts, issued,
                   uid, locale, t0>>
    /\ UNCHANGED <<transactions, payVars, mainVars>>

ReplyLimit(p) ==
    /\ pc[p] = "reply_limit"
    /\ \/ Locals(p, "done", rl[p], trueCount[p], user[p], created[p],
                 Append(sent[p], RATE_NOTICE), END, exc[p], failed[p])
       \/ Raise(p, "TelegramError")
    /\ UNCHANGED <<now, limit, redis, rexp, users, command_counter, conv, starts, issued,
                   uid, locale, t0>>
    /\ UNCHANGED <<transactions, payVars, mainVars>>

GetUser(p) ==
    /\ pc[p] = "get_user"
    /\ \/ LET u == first(users, uid[p])
          IN  Locals(p, IF u = NoUser THEN "create" ELSE "welcome", rl[p], trueCount[p],
                     u, created[p], sent[p], ret[p], exc[p], failed[p])
       \/ Raise(p, "DBError")
    /\ UNCHANGED <<now, limit, redis, rexp, users, command_counter, conv, starts, issued,
                   uid, locale, t0>>
    /\ UNCHANGED <<transactions, payVars, mainVars>>

CreateUserOk(p) ==
    /\ pc[p] = "create"
    /\ ~UniqueViolation(users, uid[p])
    /\ LET u == NewUser(users, uid[p], LanguageArg(locale[p]), now)
       IN  /\ users' = Append(users, u)
           /\ Locals(p, "welcome", rl[p], trueCount[p], u, u.id, sent[p], ret[p],
                     exc[p], failed[p])
    /\ UNCHANGED <<now, limit, redis, rexp, command_counter, conv, starts, issued,
                   uid, locale, t0>>
    /\ UNCHANGED <<transactions, payVars, mainVars>>

CreateUserDuplicate(p) ==
    /\ pc[p] = "create"
    /\ UniqueViolation(users, uid[p])
    /\ Raise(p, "IntegrityError")
    /\ UNCHANGED <<now, limit, redis, rexp, users, command_counter, conv, starts, issued,
                   uid, locale, t0>>
    /\ UNCHANGED <<transactions, payVars, mainVars>>

CreateUserFails(p) ==
    /\ pc[p] = "create"
    /\ Raise(p, "DBError")
    /\ UNCHANGED <<now, limit, redis, rexp, users, command_counter, conv, starts, issued,
                   uid, locale, t0>>
    /\ UNCHANGED <<transactions, payVars, mainVars>>

\* reply_text(welcome), then `return SELECTING_SERVICE`
SendWelcome(p) ==
    /\ pc[p] = "welcome"
    /\ \/ LET out == Append(sent[p], get_text_welcome(user[p].language))
          IN  IF Resolves("SELECTING_SERVICE")
              THEN Locals(p, "done", rl[p], trueCount[p], user[p], created[p], out,
                          "SELECTING_SERVICE", exc[p], failed[p])
              ELSE Locals(p, "except", rl[p], trueCount[p], user[p], created[p], out,
                          ret[p], "NameError", failed[p])
       \/ Raise(p, "TelegramError")
    /\ UNCHANGED <<now, limit, redis, rexp, users, command_counter, conv, starts, issued,
                   uid, locale, t0>>
    /\ UNCHANGED <<transactions, payVars, mainVars>>

\* except Exception: _handle_error(update, context); return ConversationHandler.END.
\* A /start update carries a message, so _handle_error replies; a reply_text that raises
\* there is outside any try and leaves start as an exception.
HandleError(p) ==
    /\ pc[p] = "except"
    /\ \/ Locals(p, "done", rl[p], trueCount[p], user[p], created[p],
                 Append(sent[p], ERROR_MSG), END, exc[p], failed[p])
       \/ Locals(p, "done", rl[p], trueCount[p], user[p], created[p],
                 sent[p], "raised", exc[p], failed[p])
    /\ UNCHANGED <<now, limit, redis, rexp, users, command_counter, conv, starts, issued,
                   uid, locale, t0>>
    /\ UNCHANGED <<transactions, payVars, mainVars>>

\* ConversationHandler records the state the callback returned
NextConv(state, returned) ==
    IF returned = END THEN "IDLE" ELSE IF returned = "raised" THEN state ELSE returned

Return(p) ==
    /\ pc[p] = "done"
    /\ conv' = [conv EXCEPT ![uid[p]] = NextConv(conv[uid[p]], ret[p])]
    /\ Locals(p, "idle", "none", 0, NoUser, 0, <<>>, "none", "none", FALSE)
    /\ uid' = [uid EXCEPT ![p] = 0]
    /\ locale' = [locale EXCEPT ![p] = NoLocale]
    /\ t0' = [t0 EXCEPT ![p] = 0]
    /\ UNCHANGED <<now, limit, redis, rexp, users, command_counter, starts, issued>>
    /\ UNCHANGED <<transactions, payVars, mainVars>>

\* Time passes; Redis drops the keys whose expiry is reached
Tick(d, horizon) ==
    /\ now + d <= horizon
    /\ now' = now + d
    /\ redis' = [i \in Ids |-> IF rexp[i] # NoExpiry /\ rexp[i] <= now + d THEN {} ELSE redis[i]]
    /\ rexp' = [i \in Ids |-> IF rexp[i] # NoExpiry /\ rexp[i] <= now + d THEN NoExpiry ELSE rexp[i]]
    /\ UNCHANGED <<limit, users, command_counter, conv, starts, issued,
                   pc, uid, locale, rl, trueCount, t0, user, created, sent, ret, exc, failed>>
    /\ UNCHANGED <<transactions, payVars, mainVars>>

BotInit ==
    /\ now = 0
    /\ limit \in 1..MaxLimit
    /\ redis = [i \in Ids |-> {}]
    /\ rexp = [i \in Ids |-> NoExpiry]
    /\ users = <<>>
    /\ command_counter = 0
    /\ conv = [i \in Ids |-> "IDLE"]
    /\ starts = 0
    /\ issued = [i \in Ids |-> <<>>]
    /\ pc = [p \in Procs |-> "idle"]
    /\ uid = [p \in Procs |-> 0]
    /\ locale = [p \in Procs |-> NoLocale]
    /\ rl = [p \in Procs |-> "none"]
    /\ trueCount = [p \in Procs |-> 0]
    /\ t0 = [p \in Procs |-> 0]
    /\ user = [p \in Procs |-> NoUser]
    /\ created = [p \in Procs |-> 0]
    /\ sent = [p \in Procs |-> <<>>]
    /\ ret = [p \in Procs |-> "none"]
    /\ exc = [p \in Procs |-> "none"]
    /\ failed = [p \in Procs |-> FALSE]

-----------------------------------------------------------------------------
\* PaymentManager.create_payment

PAYPAL == "paypal"
STRIPE == "stripe"
CRYPTO == "crypto"
Providers == {PAYPAL, STRIPE, CRYPTO, "None"}   \* the enum's members, and a value outside it
Amounts == {10, 25}
NoCalls == [paypal |-> 0, stripe |-> 0]
NoRequest == [vendor |-> "none"]
None == [id |-> "None"]          \* the failure result
NoResult == [id |-> "-"]         \* no result yet

DispatchDefaultStripe(provider) == IF provider = PAYPAL THEN "paypal" ELSE "stripe"

\* The if / elif / else of create_payment
Dispatch(provider) ==
    IF provider = PAYPAL THEN "paypal"
    ELSE IF provider = STRIPE THEN "stripe"
    ELSE "ValueError"

\* `except Exception` of create_payment
Caught(e) == e \in {"ValueError", "PayPalError", "StripeError"}

PaypalResultIgnoringCreate(ok) == [id |-> "PAY-1", provider |-> PAYPAL]

\* _create_paypal_payment: the reference if payment.create() is true, else None
PaypalResult(ok) == IF ok THEN [id |-> "PAY-1", provider |-> PAYPAL] ELSE None

\* _create_stripe_payment: the reference of the created session
StripeResult == [id |-> "cs_1", provider |-> STRIPE]

PayFrame == UNCHANGED <<botVars, transactions, mainVars>>

\* An exception e raised inside the try of create_payment
PayExcept(e) ==
    /\ payPc' = "done"
    /\ payResult' = IF Caught(e) THEN None ELSE NoResult
    /\ payRaised' = ~Caught(e)

CreatePayment(amount, provider) ==
    /\ payPc = "idle"
    /\ payments < MaxPayments
    /\ payments' = payments + 1
    /\ payProvider' = provider
    /\ payAmount' = amount
    /\ payBefore' = payCalls
    /\ payRequest' = NoRequest
    /\ payVendor' = "none"
    /\ IF Dispatch(provider) = "ValueError"
       THEN PayExcept("ValueError")
       ELSE payPc' = Dispatch(provider) /\ payResult' = NoResult /\ payRaised' = FALSE
    /\ UNCHANGED payCalls
    /\ PayFrame

\* payment.create() of paypalrestsdk: true, false, or an exception
PaypalCreate(answer) ==
    /\ payPc = "paypal"
    /\ payRequest' = [vendor |-> PAYPAL, total |-> payAmount, intent |-> "sale"]
    /\ payCalls' = [payCalls EXCEPT !.paypal = @ + 1]
    /\ payVendor' = answer
    /\ IF answer = "raises"
       THEN PayExcept("PayPalError")
       ELSE /\ payPc' = "done"
            /\ payResult' = PaypalResult(answer = "created")
            /\ payRaised' = FALSE
    /\ UNCHANGED <<payProvider, payAmount, payBefore, payments>>
    /\ PayFrame

\* stripe.checkout.Session.create: a session, or an exception caught in place
StripeCreate(answer) ==
    /\ payPc = "stripe"
    /\ payRequest' = [vendor |-> STRIPE, unit_amount |-> payAmount * 100, mode |-> "payment"]
    /\ payCalls' = [payCalls EXCEPT !.stripe = @ + 1]
    /\ payVendor' = answer
    /\ payPc' = "done"
    /\ payResult' = IF answer = "raises" THEN None ELSE StripeResult
    /\ payRaised' = FALSE
    /\ UNCHANGED <<payProvider, payAmount, payBefore, payments>>
    /\ PayFrame

\* The caller takes the result
PayReturn ==
    /\ payPc = "done"
    /\ payPc' = "idle"
    /\ payProvider' = "none" /\ payAmount' = 0 /\ payRequest' = NoRequest
    /\ payVendor' = "none" /\ payResult' = NoResult /\ payRaised' = FALSE
    /\ payBefore' = payCalls
    /\ UNCHANGED <<payCalls, payments>>
    /\ PayFrame

PayIdle ==
    /\ payPc = "idle" /\ payProvider = "none" /\ payAmount = 0 /\ payRequest = NoRequest
    /\ payVendor = "none" /\ payCalls = NoCalls /\ payBefore = NoCalls
    /\ payResult = NoResult /\ payRaised = FALSE /\ payments = 0

NextPay ==
    \/ \E a \in Amounts, pr \in Providers : CreatePayment(a, pr)
    \/ \E ans \in {"created", "not_created", "raises"} : PaypalCreate(ans)
    \/ \E ans \in {"created", "raises"} : StripeCreate(ans)
    \/ PayReturn

-----------------------------------------------------------------------------
\* main and Config.validate

EnvVars == {"BOT_TOKEN", "GOOGLE_SHEET_ID", "PAYPAL_CLIENT_ID", "PAYPAL_CLIENT_SECRET",
            "STRIPE_SECRET_KEY", "DATABASE_URL", "REDIS_URL"}

required_vars == {"BOT_TOKEN", "DATABASE_URL", "REDIS_URL", "PAYPAL_CLIENT_ID", "STRIPE_SECRET_KEY"}

\* Config.validate: all(os.getenv(var) for var in required_vars); e is the set of set variables
validate(e) == \A var \in required_vars : var \in e

MainFrame == UNCHANGED <<botVars, transactions, payVars>>

\* if not Config.validate(): return
MainValidate ==
    /\ mainPc = "start"
    /\ validated' = validate(env)
    /\ mainPc' = IF validate(env) THEN "init" ELSE "returned"
    /\ UNCHANGED <<env, services>>
    /\ MainFrame

\* Config(), PicklePersistence, EnhancedTravelBot(config), Updater: built, or an exception
MainInit ==
    /\ mainPc = "init"
    /\ mainPc' \in {"metrics", "crashed"}
    /\ UNCHANGED <<env, validated, services>>
    /\ MainFrame

\* start_http_server(8000): serving, or an exception
MainMetrics ==
    /\ mainPc = "metrics"
    /\ \/ mainPc' = "handlers" /\ services' = services \cup {"metrics"}
       \/ mainPc' = "crashed" /\ services' = services
    /\ UNCHANGED <<env, validated>>
    /\ MainFrame

\* ConversationHandler(... states={SELECTING_SERVICE: ..., AWAITING_PAYMENT: ...}), then the
\* webhook thread and start_polling
MainHandlers ==
    /\ mainPc = "handlers"
    /\ IF Resolves("SELECTING_SERVICE") /\ Resolves("AWAITING_PAYMENT")
       THEN mainPc' = "running" /\ services' = services \cup {"webhook", "polling"}
       ELSE mainPc' = "crashed" /\ services' = services
    /\ UNCHANGED <<env, validated>>
    /\ MainFrame

MainIdle ==
    /\ env = {} /\ mainPc = "off" /\ validated = "none" /\ services = {}

MainStart ==
    /\ env \in SUBSET EnvVars /\ mainPc = "start" /\ validated = "none" /\ services = {}

NextMain ==
    \/ MainValidate
    \/ MainInit
    \/ MainMetrics
    \/ MainHandlers

Init == BotInit /\ transactions = {} /\ PayIdle /\ MainIdle

\* The dispatcher runs one callback at a time (the Updater's default); create_user then
\* never meets a row that get_user did not see
Main == "h1"

Next ==
    \/ \E tid \in Ids, lc \in Locales : Begin(Main, tid, lc, MaxStarts)
    \/ CheckRateLimitOk(Main)
    \/ CheckRateLimitFails(Main)
    \/ ReplyLimit(Main)
    \/ GetUser(Main)
    \/ CreateUserOk(Main)
    \/ CreateUserFails(Main)
    \/ SendWelcome(Main)
    \/ HandleError(Main)
    \/ Return(Main)
    \/ \E d \in TickSteps : Tick(d, MaxTime)

Spec == Init /\ [][Next]_vars

\* Updates dispatched to concurrent workers (thread-per-update dispatch)
NextRace ==
    \/ \E p \in Procs, tid \in RaceIds, lc \in Locales : Begin(p, tid, lc, MaxRaceStarts)
    \/ \E p \in Procs : CheckRateLimitOk(p)
    \/ \E p \in Procs : CheckRateLimitFails(p)
    \/ \E p \in Procs : ReplyLimit(p)
    \/ \E p \in Procs : GetUser(p)
    \/ \E p \in Procs : CreateUserOk(p)
    \/ \E p \in Procs : CreateUserDuplicate(p)
    \/ \E p \in Procs : CreateUserFails(p)
    \/ \E p \in Procs : SendWelcome(p)
    \/ \E p \in Procs : HandleError(p)
    \/ \E p \in Procs : Return(p)
    \/ \E d \in TickSteps : Tick(d, MaxRaceTime)

SpecRace == Init /\ [][NextRace]_vars

InitPay == BotInit /\ limit = 1 /\ transactions = {} /\ PayIdle /\ MainIdle

SpecPay == InitPay /\ [][NextPay]_vars

InitMain == BotInit /\ limit = 1 /\ transactions = {} /\ PayIdle /\ MainStart

SpecMain == InitMain /\ [][NextMain]_vars

-----------------------------------------------------------------------------
\* Properties

Last(q) == q[Len(q)]

\* C1 (as claimed): a check_rate_limit call answers False exactly when more than `limit`
\* calls of that identity, this one included, fall in the trailing 60 seconds; so the
\* (limit+1)-th call in a window is rejected and is answered with the rate-limit notice,
\* and a call with at most `limit` calls in its window is accepted.
C1_RejectsBeyondCeiling ==
    \A p \in Procs :
        rl[p] # "none" =>
            /\ (rl[p] = "rejected") <=> (trueCount[p] > limit)
            /\ (pc[p] = "done" /\ trueCount[p] > limit /\ ~failed[p]) => sent[p] = <<RATE_NOTICE>>

\* C2 (as claimed): a finished /start whose store and reply calls all succeeded has either
\* been rejected, sent only the rate-limit notice and returned END, or been allowed,
\* obtained the UserProfile, sent only the welcome and returned SELECTING_SERVICE.
C2_StartTransitions ==
    \A p \in Procs :
        (pc[p] = "done" /\ ~failed[p]) =>
            /\ rl[p] = "rejected" => (sent[p] = <<RATE_NOTICE>> /\ ret[p] = END)
            /\ rl[p] = "allowed" =>
                   /\ user[p] # NoUser
                   /\ sent[p] = <<get_text_welcome(user[p].language)>>
                   /\ ret[p] = "SELECTING_SERVICE"

\* C3 (as claimed): whenever a step of /start raised, the handler ends by sending the
\* generic error message and returning END; no exception leaves the handler.
C3_ExceptionsCaught ==
    \A p \in Procs :
        (pc[p] = "done" /\ exc[p] # "none") =>
            /\ ret[p] = END
            /\ sent[p] # <<>> /\ Last(sent[p]) = ERROR_MSG

\* C4: under concurrent /start handlers no two rows of users share a telegram_id; a row a
\* handler created stays as it wrote it; a create that loses the race raises
\* IntegrityError and adds no row; a handler that passed the rate limit and holds no
\* UserProfile has ended in an error; and when an allowed handler ends without a database
\* failure the table holds exactly one row for its identity.
C4_OneProfilePerIdentity ==
    /\ \A i, j \in DOMAIN users : users[i].telegram_id = users[j].telegram_id => i = j
    /\ \A p \in Procs :
        /\ created[p] # 0 =>
               /\ created[p] \in DOMAIN users
               /\ users[created[p]] = user[p]
               /\ user[p].telegram_id = uid[p]
        /\ exc[p] = "IntegrityError" =>
               /\ created[p] = 0
               /\ user[p] = NoUser
               /\ Cardinality(Matching(users, uid[p])) = 1
        /\ (pc[p] \in {"welcome", "done"} /\ rl[p] = "allowed" /\ user[p] = NoUser) =>
               exc[p] \in {"DBError", "IntegrityError"}
        /\ (pc[p] = "done" /\ rl[p] = "allowed" /\ exc[p] # "DBError") =>
               Cardinality(Matching(users, uid[p])) = 1

\* C4 witness: two handlers raced on the same unseen identity; one created the row, the
\* other's create raised IntegrityError, and the table holds one row for the identity.
C4_Witness ==
    \E p, q \in Procs :
        /\ p # q /\ uid[p] = uid[q]
        /\ created[p] # 0
        /\ exc[q] = "IntegrityError" /\ pc[q] = "done" /\ ret[q] = END
        /\ Cardinality(Matching(users, uid[p])) = 1

\* C5 (as claimed): the profile created for a new identity has the reported locale as its
\* language when the locale is supported, and "en" when it is absent or unsupported.
C5_NewUserLanguage ==
    \A p \in Procs :
        created[p] # 0 =>
            user[p].language = IF locale[p] \in SUPPORTED_LANGUAGES THEN locale[p] ELSE "en"

\* A step of handler p while its /start is being or has been rejected
RejectedStep(p) == pc'[p] # pc[p] /\ rl'[p] = "rejected"

\* C6 (as claimed): no step of a rejected /start changes the user store, the transaction
\* store, the command counter or the identity's rate window.
C6_RejectedStartMutatesNothing ==
    [][\A p \in Procs :
          RejectedStep(p) =>
              /\ users' = users
              /\ transactions' = transactions
              /\ command_counter' = command_counter
              /\ redis'[uid[p]] = redis[uid[p]]]_vars

\* C6 (amended): no step of a rejected /start changes the user store, the transaction
\* store or the command counter; the rejecting check itself records the current timestamp
\* in the identity's rate window and drops the entries 60 seconds old or older, and the
\* later steps leave the window alone.
C6_RejectedStartKeepsStores ==
    [][\A p \in Procs :
          RejectedStep(p) =>
              /\ users' = users
              /\ transactions' = transactions
              /\ command_counter' = command_counter
              /\ redis'[uid[p]] =
                     IF rl[p] = "none"
                     THEN {m \in redis[uid[p]] \cup {now} : m > now - WINDOW}
                     ELSE redis[uid[p]]]_vars

\* C6 witness: a rejected /start has run to its end, and its timestamp is in the window.
C6_Witness ==
    \E p \in Procs :
        /\ pc[p] = "done" /\ rl[p] = "rejected" /\ ret[p] = END
        /\ sent[p] = <<RATE_NOTICE>>
        /\ t0[p] \in redis[uid[p]]
        /\ Cardinality(redis[uid[p]]) > limit

Supported == {PAYPAL, STRIPE}
VendorCalls(c) == c.paypal + c.stripe

\* C7: create_payment with a provider outside {PAYPAL, STRIPE} calls no vendor, raises
\* nothing and returns None.
C7_UnsupportedProviderFails ==
    (payPc = "done" /\ payProvider \notin Supported) =>
        /\ payCalls = payBefore
        /\ payRequest = NoRequest
        /\ payRaised = FALSE
        /\ payResult = None

\* C7 witness: a CRYPTO payment has returned, after an earlier payment that did call a vendor.
C7_Witness ==
    /\ payPc = "done" /\ payProvider = CRYPTO /\ payResult = None
    /\ VendorCalls(payCalls) > 0

\* C8: create_payment with PAYPAL or STRIPE whose vendor call raised, or whose PayPal
\* create() answered false, returns None without raising, after exactly one vendor call,
\* and no Transaction exists in the succeeded state.
C8_VendorFailureFails ==
    (payPc = "done" /\ payProvider \in Supported /\ payVendor \in {"raises", "not_created"}) =>
        /\ payResult = None
        /\ payRaised = FALSE
        /\ VendorCalls(payCalls) = VendorCalls(payBefore) + 1
        /\ \A t \in transactions : t.status # "succeeded"

\* C8 witness: a PayPal payment whose create() answered false has returned.
C8_Witness ==
    /\ payPc = "done" /\ payProvider = PAYPAL /\ payVendor = "not_created"
    /\ payCalls.paypal = payBefore.paypal + 1

\* The values the configuration surface requires: token, database, rate-limit store,
\* and both members of each vendor's credentials
ClaimedRequired ==
    {"BOT_TOKEN", "DATABASE_URL", "REDIS_URL", "PAYPAL_CLIENT_ID", "PAYPAL_CLIENT_SECRET",
     "STRIPE_SECRET_KEY"}

\* C9 (as claimed): once validation has run with a required value absent (the PayPal client
\* secret included), it has failed and no service has been started.
C9_StartupFailsFast ==
    (mainPc # "start" /\ ClaimedRequired \ env # {}) =>
        /\ validated = FALSE
        /\ services = {}

\* C10 (as claimed): a finished, allowed /start whose calls succeeded leaves a UserProfile
\* for the identity in the store, and if the profile existed before, its last_active is
\* not earlier than this interaction.
C10_LastActiveUpdated ==
    \A p \in Procs :
        (pc[p] = "done" /\ rl[p] = "allowed" /\ ~failed[p]) =>
            /\ Matching(users, uid[p]) # {}
            /\ created[p] = 0 => first(users, uid[p]).last_active >= t0[p]

====
